---- MODULE Spec2Model ----
(***************************************************************************)
(* Jacobi solver for the discrete 2D Poisson equation, OpenMP version      *)
(* (src/openmp/poisson_openmp.c).                                          *)
(*                                                                         *)
(* Two specifications share the module:                                    *)
(*   Spec / FairSpec : jacobi_poisson (with jacobi_step) run by a team of  *)
(*                     nthreads OpenMP workers, one step per loop          *)
(*                     iteration of each work-shared loop;                 *)
(*   SpecMain        : the driver main() around the call of the solver:    *)
(*                     argument extraction, report file, matrix dump and   *)
(*                     exit status.                                        *)
(*                                                                         *)
(* Numbers.  The C doubles are modelled in fixed point: one unit is 1e-8,  *)
(* so tol = 1e-6 is 100 units and h*h*f = 0.01*0.01*1.5 is 15000 units.    *)
(* Sums and differences are exact; the division by 4.0 and sqrt round      *)
(* down to a whole unit.                                                   *)
(***************************************************************************)
EXTENDS Integers, Sequences, FiniteSets, TLC

\* ------------------------------------------------------------------ bounds
MaxN == 2
MaxM == 2
MaxPoints == 4
MaxThreads == 2
MaxCap == 1
MaxArgLen == 2

\* ------------------------------------------------------- program constants
\* maxit=70000 (line 47)
MaxitDefault == 70000
\* tol=1e-6 (line 48), in units of 1e-8
tol == 100
\* h*h*f with h=0.01, f=1.5 (lines 96, 116), in units of 1e-8
h2f == 15000
\* N=50, M=50 (line 95) and the fallbacks of lines 100, 103
DefaultN == 50
DefaultM == 50
FallbackN == 50
FallbackM == 1

VARIABLES
  \* ---- jacobi_poisson
  N, M,          \* grid interior dimensions (arguments)
  x, b, t,       \* flat arrays of (N+2)*(M+2) values, index i*ld+j
  k, conv, s,    \* iteration counter, convergence flag, sum of squares
  maxit,         \* iteration cap
  nthreads,      \* size of the OpenMP team
  pc,            \* position of the encountering thread in jacobi_poisson
  wpc,           \* position of every team worker inside a parallel region
  todo,          \* iterations of the current work-shared loop not yet run
  spriv,         \* per-worker private copy of the reduction variable s
  single_by,     \* worker that took the single block of this region (0: none)
  log,           \* records printed by printf: <<k, sqrt(s)>>
  \* ---- history of the solve (not program state)
  x0,            \* x as handed to jacobi_poisson
  xk,            \* x as handed to the running call of jacobi_step
  sweeps,        \* number of calls of jacobi_step
  owner,         \* <<iteration, worker>> for the iterations of the current
                 \* work-shared loop that have been run
  \* ---- main
  argv,          \* argv[1..argc-1], each a sequence of characters
  mpc,           \* position in main
  output, p,     \* FILE* of the report and of the matrix dump
  fs,            \* environment: the files fopen(name,"w") can open
  report,        \* number of lines written to output.txt
  rows,          \* number of rows written to matrix_poisson_openmp.txt
  status         \* how the process ended: "exit 0", "exit 1", "killed"

svars == <<N, M, x, b, t, k, conv, s, maxit, nthreads, pc, wpc, todo, spriv,
           single_by, log, x0, xk, sweeps, owner>>
srest == <<x, b, t, k, conv, s, maxit, nthreads, pc, wpc, todo, spriv,
           single_by, log, x0, xk, sweeps, owner>>
mvars == <<argv, mpc, output, p, fs, report, rows, status>>
vars == <<svars, mvars>>

\* ------------------------------------------------------------ grid helpers
\* ld=M+2 (lines 20, 47, 105)
ld == M + 2

\* calloc((N+2)*(M+2),sizeof(double)) (lines 50, 108, 109)
Calloc(n, m) == [q \in 0 .. ((n + 2) * (m + 2) - 1) |-> 0]

Workers == 1 .. nthreads

\* for (i=1; i<=N; i++) for (j=1; j<=M; j++) of jacobi_step (lines 22-23)
SweepRange_HaloColumn(n, m) == (1 .. n) \X (1 .. (m + 1))
SweepRange_FromZero(n, m) == (1 .. n) \X (0 .. m)
SweepRange(n, m) == (1 .. n) \X (1 .. m)

\* the loop nest of the reduction (lines 66-67)
ReduceRange(n, m) == (1 .. n) \X (1 .. m)

\* the loop nest of the copy (lines 82-83)
CopyRange_ShortRow(n, m) == (1 .. n) \X (1 .. (m - 1))
CopyRange_ShortColumn(n, m) == (1 .. (n - 1)) \X (1 .. m)
CopyRange(n, m) == (1 .. n) \X (1 .. m)

\* ------------------------------------------------------------- arithmetic
\* division by 4.0 of line 24
Quarter(v) == v \div 4

\* sqrt of lines 74-75, rounded down to a whole unit: the result is built
\* bit by bit from the highest bit down; a = <<v, root so far, bit>>,
\* for v below 2^30
SqrtFrom[a \in Nat \X Nat \X Nat] ==
  IF a[3] = 0 THEN a[2]
  ELSE SqrtFrom[<<a[1],
                  IF (a[2] + a[3]) * (a[2] + a[3]) <= a[1]
                  THEN a[2] + a[3] ELSE a[2],
                  a[3] \div 2>>]
Sqrt(v) == SqrtFrom[<<v, 0, 16384>>]

\* the right-hand side of line 24
Stencil_SameNeighbour(xx, bb, i, j) ==
  Quarter(bb[i * ld + j] + xx[(i + 1) * ld + j] + xx[(i + 1) * ld + j]
          + xx[i * ld + (j + 1)] + xx[i * ld + (j - 1)])
Stencil(xx, bb, i, j) ==
  Quarter(bb[i * ld + j] + xx[(i + 1) * ld + j] + xx[(i - 1) * ld + j]
          + xx[i * ld + (j + 1)] + xx[i * ld + (j - 1)])

\* the term added to s at line 68
Term(xx, tt, i, j) ==
  (xx[i * ld + j] - tt[i * ld + j]) * (xx[i * ld + j] - tt[i * ld + j])

\* reduction(+:s): a worker's private sum is added to the shared s (line 65)
Combine_Overwrite(shared, private) == private
Combine(shared, private) == shared + private

\* sqrt(s)<tol (line 74)
Converged_NoSqrt(sum) == sum \div (tol * tol) < tol * tol * tol
Converged(sum) == Sqrt(sum) < tol

\* !conv && k<maxit (line 55)
LoopCond_OneMore(c, kk, cap) == ~c /\ kk <= cap
LoopCond(c, kk, cap) == ~c /\ kk < cap

\* s = 0.0 (line 61)
FreshSum_Kept(old) == old
FreshSum(old) == 0

\* the record printed at line 75
Record_NextIndex(kk, sum) == <<kk + 1, Sqrt(sum)>>
Record(kk, sum) == <<kk, Sqrt(sum)>>

\* omp for: an iteration handed to a worker is handed to no other worker
\* (lines 21, 65, 81)
Taken_NotShared(left, c) == left
Taken(left, c) == left \ {c}

\* omp for: worker w is through with a loop when no iteration is left, or
\* when the workers still in the loop or yet to reach it run what is left
\* (the assignment of iterations to workers is the schedule's)
MayLeave(left, pcs, w, before) ==
  left = {} \/ \E v \in DOMAIN pcs : v # w /\ pcs[v] \in before

\* end of a parallel region: the encountering thread goes on when every
\* worker of the team has arrived (lines 26-27, 87)
TeamJoined_Any(pcs) == \E w \in DOMAIN pcs : pcs[w] = "join"
TeamJoined(pcs) == \A w \in DOMAIN pcs : pcs[w] = "join"

\* implicit barrier at the end of the reduction loop (line 70)
BarrierOpen_Any(pcs) == \E w \in DOMAIN pcs : pcs[w] = "barrier"
BarrierOpen(pcs) == \A w \in DOMAIN pcs : pcs[w] = "barrier"

\* omp single (line 72): the block is run by the first worker to reach it
SingleFree_Every(by) == TRUE
SingleFree(by) == by = 0

\* k = k+1 (line 78)
NextK_Forgotten(kk) == kk
NextK_Twice(kk) == kk + 2
NextK(kk) == kk + 1

\* ------------------------------------------------------------------ inputs
\* grid sizes explored
Dims == {d \in (0 .. MaxN) \X (0 .. MaxM) : d[1] * d[2] <= MaxPoints}

\* right-hand sides explored: h*h*f on every interior point, as main sets it
\* (lines 114-118), and h*h*f on the first interior point only
BUniform(n, m) ==
  [q \in DOMAIN Calloc(n, m) |->
     IF q \div (m + 2) \in 1 .. n /\ q % (m + 2) \in 1 .. m THEN h2f ELSE 0]
BPoint(n, m) ==
  [q \in DOMAIN Calloc(n, m) |->
     IF n >= 1 /\ m >= 1 /\ q = (m + 2) + 1 THEN h2f ELSE 0]
BInputs(n, m) == {BUniform(n, m), BPoint(n, m)}

\* initial iterates explored: zero, as main passes it (line 108), and the
\* value h*h*f/4 on every interior point
XQuarter(n, m) ==
  [q \in DOMAIN Calloc(n, m) |->
     IF q \div (m + 2) \in 1 .. n /\ q % (m + 2) \in 1 .. m
     THEN Quarter(h2f) ELSE 0]
XInputs(n, m) == {Calloc(n, m), XQuarter(n, m)}

\* iteration caps explored: the program's 70000 and small ones
Caps == (1 .. MaxCap) \cup {MaxitDefault}

\* main outside the solver / the solver outside main
MainIdle ==
  /\ argv = << >>
  /\ mpc = "solver"
  /\ output = "none"
  /\ p = "none"
  /\ fs = {}
  /\ report = 0
  /\ rows = 0
  /\ status = "none"

\* ---------------------------------------------------------- jacobi_poisson
\* State at line 55 on entry: t allocated and zeroed (line 50), k = 0
\* (line 52), conv = 0 (line 53).  s is not initialised before line 61 and
\* not read before it either.
Init ==
  /\ \E d \in Dims : N = d[1] /\ M = d[2]
  /\ b \in BInputs(N, M)
  /\ x \in XInputs(N, M)
  /\ maxit \in Caps
  /\ nthreads \in 1 .. MaxThreads
  /\ t = Calloc(N, M)
  /\ k = 0
  /\ conv = FALSE
  /\ s = 0
  /\ pc = "while"
  /\ wpc = [w \in Workers |-> "idle"]
  /\ todo = {}
  /\ spriv = [w \in Workers |-> 0]
  /\ single_by = 0
  /\ log = << >>
  /\ x0 = x
  /\ xk = x
  /\ sweeps = 0
  /\ owner = {}
  /\ MainIdle

\* line 55 true, line 58: call of jacobi_step, fork of its parallel for
CallStep ==
  /\ pc = "while"
  /\ LoopCond(conv, k, maxit)
  /\ pc' = "step"
  /\ wpc' = [w \in Workers |-> "sweep"]
  /\ todo' = SweepRange(N, M)
  /\ owner' = {}
  /\ xk' = x
  /\ sweeps' = sweeps + 1
  /\ UNCHANGED <<mvars, N, M, x, b, t, k, conv, s, maxit, nthreads, spriv,
                 single_by, log, x0>>

\* line 24: worker w runs one iteration of the collapsed loop
SweepPoint(w) ==
  /\ pc = "step"
  /\ wpc[w] = "sweep"
  /\ \E c \in todo :
       /\ t' = [t EXCEPT ![c[1] * ld + c[2]] = Stencil(x, b, c[1], c[2])]
       /\ todo' = Taken(todo, c)
       /\ owner' = owner \cup {<<c, w>>}
  /\ UNCHANGED <<mvars, N, M, x, b, k, conv, s, maxit, nthreads, pc, wpc,
                 spriv, single_by, log, x0, xk, sweeps>>

\* line 26: worker w has run its share and waits at the barrier ending the
\* loop
SweepEnd(w) ==
  /\ pc = "step"
  /\ wpc[w] = "sweep"
  /\ MayLeave(todo, wpc, w, {"sweep"})
  /\ wpc' = [wpc EXCEPT ![w] = "join"]
  /\ UNCHANGED <<mvars, N, M, x, b, t, k, conv, s, maxit, nthreads, pc, todo,
                 spriv, single_by, log, x0, xk, sweeps, owner>>

\* line 27 return, line 61 s = 0.0, line 63 fork of the parallel region
EnterRegion ==
  /\ pc = "step"
  /\ TeamJoined(wpc)
  /\ s' = FreshSum(s)
  /\ pc' = "region"
  /\ wpc' = [w \in Workers |-> "reduce"]
  /\ todo' = ReduceRange(N, M)
  /\ owner' = {}
  /\ spriv' = [w \in Workers |-> 0]
  /\ single_by' = 0
  /\ UNCHANGED <<mvars, N, M, x, b, t, k, conv, maxit, nthreads, log, x0, xk,
                 sweeps>>

\* line 68: worker w adds one term to its private copy of s
ReducePoint(w) ==
  /\ pc = "region"
  /\ wpc[w] = "reduce"
  /\ \E c \in todo :
       /\ spriv' = [spriv EXCEPT ![w] = spriv[w] + Term(x, t, c[1], c[2])]
       /\ todo' = Taken(todo, c)
       /\ owner' = owner \cup {<<c, w>>}
  /\ UNCHANGED <<mvars, N, M, x, b, t, k, conv, s, maxit, nthreads, pc, wpc,
                 single_by, log, x0, xk, sweeps>>

\* line 70: worker w has run its share, combines its private copy into s
\* and waits at the barrier ending the loop
ReduceEnd(w) ==
  /\ pc = "region"
  /\ wpc[w] = "reduce"
  /\ MayLeave(todo, wpc, w, {"reduce"})
  /\ s' = Combine(s, spriv[w])
  /\ wpc' = [wpc EXCEPT ![w] = "barrier"]
  /\ UNCHANGED <<mvars, N, M, x, b, t, k, conv, maxit, nthreads, pc, todo,
                 spriv, single_by, log, x0, xk, sweeps, owner>>

\* the barrier of line 70 opens: every worker arrives at the single
\* construct, the copy loop of lines 81-86 becomes available
Barrier ==
  /\ pc = "region"
  /\ BarrierOpen(wpc)
  /\ wpc' = [w \in Workers |-> "single"]
  /\ todo' = CopyRange(N, M)
  /\ owner' = {}
  /\ UNCHANGED <<mvars, N, M, x, b, t, k, conv, s, maxit, nthreads, pc, spriv,
                 single_by, log, x0, xk, sweeps>>

\* lines 72-74: the first worker to arrive takes the block and sets conv
SingleConv(w) ==
  /\ pc = "region"
  /\ wpc[w] = "single"
  /\ SingleFree(single_by)
  /\ single_by' = w
  /\ conv' = Converged(s)
  /\ wpc' = [wpc EXCEPT ![w] = "printf"]
  /\ UNCHANGED <<mvars, N, M, x, b, t, k, s, maxit, nthreads, pc, todo, spriv,
                 log, x0, xk, sweeps, owner>>

\* line 72, nowait: the block is taken, worker w goes on to the copy loop
SingleSkip(w) ==
  /\ pc = "region"
  /\ wpc[w] = "single"
  /\ ~SingleFree(single_by)
  /\ wpc' = [wpc EXCEPT ![w] = "copy"]
  /\ UNCHANGED <<mvars, N, M, x, b, t, k, conv, s, maxit, nthreads, pc, todo,
                 spriv, single_by, log, x0, xk, sweeps, owner>>

\* line 75
SinglePrintf(w) ==
  /\ pc = "region"
  /\ wpc[w] = "printf"
  /\ log' = Append(log, Record(k, s))
  /\ wpc' = [wpc EXCEPT ![w] = "inc"]
  /\ UNCHANGED <<mvars, N, M, x, b, t, k, conv, s, maxit, nthreads, pc, todo,
                 spriv, single_by, x0, xk, sweeps, owner>>

\* line 78, then on to the copy loop without waiting (nowait)
SingleInc(w) ==
  /\ pc = "region"
  /\ wpc[w] = "inc"
  /\ k' = NextK(k)
  /\ wpc' = [wpc EXCEPT ![w] = "copy"]
  /\ UNCHANGED <<mvars, N, M, x, b, t, conv, s, maxit, nthreads, pc, todo,
                 spriv, single_by, log, x0, xk, sweeps, owner>>

\* line 84: worker w runs one iteration of the copy loop
CopyPoint(w) ==
  /\ pc = "region"
  /\ wpc[w] = "copy"
  /\ \E c \in todo :
       /\ x' = [x EXCEPT ![c[1] * ld + c[2]] = t[c[1] * ld + c[2]]]
       /\ todo' = Taken(todo, c)
       /\ owner' = owner \cup {<<c, w>>}
  /\ UNCHANGED <<mvars, N, M, b, t, k, conv, s, maxit, nthreads, pc, wpc,
                 spriv, single_by, log, x0, xk, sweeps>>

\* line 86: worker w has run its share and waits at the barrier ending the
\* loop
CopyEnd(w) ==
  /\ pc = "region"
  /\ wpc[w] = "copy"
  /\ MayLeave(todo, wpc, w, {"single", "printf", "inc", "copy"})
  /\ wpc' = [wpc EXCEPT ![w] = "join"]
  /\ UNCHANGED <<mvars, N, M, x, b, t, k, conv, s, maxit, nthreads, pc, todo,
                 spriv, single_by, log, x0, xk, sweeps, owner>>

\* line 87: the region ends when every worker has arrived; back to line 55
LeaveRegion ==
  /\ pc = "region"
  /\ TeamJoined(wpc)
  /\ pc' = "while"
  /\ wpc' = [w \in Workers |-> "idle"]
  /\ UNCHANGED <<mvars, N, M, x, b, t, k, conv, s, maxit, nthreads, todo,
                 spriv, single_by, log, x0, xk, sweeps, owner>>

\* line 55 false, lines 90-91: free(t) and return
Return ==
  /\ pc = "while"
  /\ ~LoopCond(conv, k, maxit)
  /\ pc' = "done"
  /\ UNCHANGED <<mvars, N, M, x, b, t, k, conv, s, maxit, nthreads, wpc, todo,
                 spriv, single_by, log, x0, xk, sweeps, owner>>

Next ==
  \/ CallStep
  \/ \E w \in Workers : SweepPoint(w)
  \/ \E w \in Workers : SweepEnd(w)
  \/ EnterRegion
  \/ \E w \in Workers : ReducePoint(w)
  \/ \E w \in Workers : ReduceEnd(w)
  \/ Barrier
  \/ \E w \in Workers : SingleConv(w)
  \/ \E w \in Workers : SingleSkip(w)
  \/ \E w \in Workers : SinglePrintf(w)
  \/ \E w \in Workers : SingleInc(w)
  \/ \E w \in Workers : CopyPoint(w)
  \/ \E w \in Workers : CopyEnd(w)
  \/ LeaveRegion
  \/ Return

Spec == Init /\ [][Next]_vars

\* Every OpenMP thread that can take a step eventually takes one.
FairSpec == Spec /\ WF_vars(Next)

\* -------------------------------------------------------------------- main
\* The driver around the solve.  The arrays and the solve itself are the
\* business of Spec; here the call of line 127 is the step from "solve" to
\* "open_report", and the state is the argument vector, N and M, the two
\* output files and the way the process ends.

\* characters of the arguments explored
Chars == {" ", "-", "+", "0", "1", "x"}
Digits == {"0", "1", "2", "3", "4", "5", "6", "7", "8", "9"}
DigitValue(ch) ==
  CASE ch = "0" -> 0 [] ch = "1" -> 1 [] ch = "2" -> 2 [] ch = "3" -> 3
    [] ch = "4" -> 4 [] ch = "5" -> 5 [] ch = "6" -> 6 [] ch = "7" -> 7
    [] ch = "8" -> 8 [] ch = "9" -> 9

RECURSIVE Strings(_)
Strings(len) ==
  IF len = 0 THEN {<< >>}
  ELSE Strings(len - 1)
         \cup {Append(str, ch) : str \in Strings(len - 1), ch \in Chars}

\* atoi (lines 100, 103): leading white space is skipped, then an optional
\* sign, then the digits up to the first character that is no digit
RECURSIVE SkipSpace(_)
SkipSpace(str) ==
  IF str # << >> /\ Head(str) = " " THEN SkipSpace(Tail(str)) ELSE str

RECURSIVE DigitsValue(_, _)
DigitsValue(str, acc) ==
  IF str # << >> /\ Head(str) \in Digits
  THEN DigitsValue(Tail(str), 10 * acc + DigitValue(Head(str)))
  ELSE acc

Atoi(str) ==
  LET rest == SkipSpace(str)
  IN  IF rest # << >> /\ Head(rest) = "-" THEN 0 - DigitsValue(Tail(rest), 0)
      ELSE IF rest # << >> /\ Head(rest) = "+" THEN DigitsValue(Tail(rest), 0)
      ELSE DigitsValue(rest, 0)

\* argc
argc == Len(argv) + 1

\* line 100: if ((N = atoi(argv[1])) < 0) N = 50;
ParsedN(str) == IF Atoi(str) < 0 THEN FallbackN ELSE Atoi(str)
\* line 103: if ((M = atoi(argv[2])) < 0) M = 1;
ParsedM(str) == IF Atoi(str) < 0 THEN FallbackM ELSE Atoi(str)

\* the solver's variables while main is outside the solver
SolverIdle ==
  /\ x = << >> /\ b = << >> /\ t = << >>
  /\ k = 0 /\ conv = FALSE /\ s = 0
  /\ maxit = MaxitDefault
  /\ nthreads = 1
  /\ pc = "idle"
  /\ wpc = << >>
  /\ todo = {}
  /\ spriv = << >>
  /\ single_by = 0
  /\ log = << >>
  /\ x0 = << >> /\ xk = << >>
  /\ sweeps = 0
  /\ owner = {}

\* State at line 98: N=50, M=50 (line 95); the environment decides the
\* arguments and which of the two output files can be opened.
MainInit ==
  /\ \E n \in 0 .. 2 : argv \in [1 .. n -> Strings(MaxArgLen)]
  /\ fs \in SUBSET {"output.txt", "matrix_poisson_openmp.txt"}
  /\ N = DefaultN
  /\ M = DefaultM
  /\ mpc = "args"
  /\ output = "none"
  /\ p = "none"
  /\ report = 0
  /\ rows = 0
  /\ status = "none"
  /\ SolverIdle

\* lines 99-105
ExtractArgs ==
  /\ mpc = "args"
  /\ N' = IF argc > 1 THEN ParsedN(argv[1]) ELSE N
  /\ M' = IF argc > 2 THEN ParsedM(argv[2]) ELSE M
  /\ mpc' = "solve"
  /\ UNCHANGED <<srest, argv, output, p, fs, report, rows, status>>

\* lines 108-135: allocation, b, the call jacobi_poisson(N,M,x,b), the team
\* size
Solve ==
  /\ mpc = "solve"
  /\ mpc' = "open_report"
  /\ UNCHANGED <<srest, N, M, argv, output, p, fs, report, rows, status>>

\* line 138
OpenReport ==
  /\ mpc = "open_report"
  /\ output' = IF "output.txt" \in fs THEN "FILE" ELSE "NULL"
  /\ mpc' = "write_report"
  /\ UNCHANGED <<srest, N, M, argv, p, fs, report, rows, status>>

\* lines 139-143 with the file open: four lines and fclose
WriteReport ==
  /\ mpc = "write_report"
  /\ output = "FILE"
  /\ report' = 4
  /\ mpc' = "open_dump"
  /\ UNCHANGED <<srest, N, M, argv, output, p, fs, rows, status>>

\* lines 139-143 with output = NULL: fprintf and fclose on a null FILE* are
\* undefined; the process is killed, or the calls come back having written
\* nothing
WriteReportNull ==
  /\ mpc = "write_report"
  /\ output = "NULL"
  /\ \/ mpc' = "exited" /\ status' = "killed"
     \/ mpc' = "open_dump" /\ status' = status
  /\ UNCHANGED <<srest, N, M, argv, output, p, fs, report, rows>>

\* line 146
OpenDump ==
  /\ mpc = "open_dump"
  /\ p' = IF "matrix_poisson_openmp.txt" \in fs THEN "FILE" ELSE "NULL"
  /\ mpc' = "check_dump"
  /\ UNCHANGED <<srest, N, M, argv, output, fs, report, rows, status>>

\* lines 148-150
NoDump ==
  /\ mpc = "check_dump"
  /\ p = "NULL"
  /\ status' = "exit 1"
  /\ mpc' = "exited"
  /\ UNCHANGED <<srest, N, M, argv, output, p, fs, report, rows>>

\* lines 153-158: one row of the matrix per step
DumpRow ==
  /\ mpc = "check_dump"
  /\ p = "FILE"
  /\ rows < N
  /\ rows' = rows + 1
  /\ UNCHANGED <<srest, N, M, argv, mpc, output, p, fs, report, status>>

\* lines 160-164
DumpEnd ==
  /\ mpc = "check_dump"
  /\ p = "FILE"
  /\ ~(rows < N)
  /\ status' = "exit 0"
  /\ mpc' = "exited"
  /\ UNCHANGED <<srest, N, M, argv, output, p, fs, report, rows>>

MainNext ==
  \/ ExtractArgs
  \/ Solve
  \/ OpenReport
  \/ WriteReport
  \/ WriteReportNull
  \/ OpenDump
  \/ NoDump
  \/ DumpRow
  \/ DumpEnd

SpecMain == MainInit /\ [][MainNext]_vars

\* ------------------------------------------- single-worker reference run
\* jacobi_step run by one worker: every iteration of lines 22-26 in turn
SeqStep(xx, bb, tt) ==
  [q \in DOMAIN tt |->
     IF \E c \in SweepRange(N, M) : q = c[1] * ld + c[2]
     THEN LET c == CHOOSE c \in SweepRange(N, M) : q = c[1] * ld + c[2]
          IN  Stencil(xx, bb, c[1], c[2])
     ELSE tt[q]]

\* lines 61-70 run by one worker: s = 0.0, then one term per iteration
RECURSIVE SeqSum(_, _, _)
SeqSum(xx, tt, left) ==
  IF left = {} THEN 0
  ELSE LET c == CHOOSE c \in left : TRUE
       IN  Term(xx, tt, c[1], c[2]) + SeqSum(xx, tt, left \ {c})

\* lines 81-86 run by one worker
SeqCopy(xx, tt) ==
  [q \in DOMAIN xx |->
     IF \E c \in CopyRange(N, M) : q = c[1] * ld + c[2] THEN tt[q] ELSE xx[q]]

\* the loop of lines 55-88 run by one worker, from line 55 with the given
\* x, t, k, conv, s and printed records
RECURSIVE SeqSolve(_, _, _, _, _, _)
SeqSolve(xx, tt, kk, cc, ss, lg) ==
  IF LoopCond(cc, kk, maxit)
  THEN LET t1 == SeqStep(xx, b, tt)
           s1 == Combine(FreshSum(ss), SeqSum(xx, t1, ReduceRange(N, M)))
       IN  SeqSolve(SeqCopy(xx, t1), t1, NextK(kk), Converged(s1), s1,
                    Append(lg, Record(kk, s1)))
  ELSE [x |-> xx, t |-> tt, k |-> kk, conv |-> cc, s |-> ss, log |-> lg]

\* jacobi_poisson(N,M,xin,b) run by one worker
SeqRun(xin) == SeqSolve(xin, Calloc(N, M), 0, FALSE, 0, << >>)

\* ================================================================ claims
Interior == (1 .. N) \X (1 .. M)
At(i, j) == i * ld + j
IsHalo(q) == q \div ld \in {0, N + 1} \/ q % ld \in {0, M + 1}
Abs(v) == IF v < 0 THEN -v ELSE v
Terminated == pc = "done"
StepReturned == pc = "step" /\ \A w \in Workers : wpc[w] = "join"
CopyPhase ==
  /\ pc = "region"
  /\ \A w \in Workers : wpc[w] \in {"single", "printf", "inc", "copy", "join"}
CopyPartWay == CopyPhase /\ todo # {} /\ todo # Interior

\* C1: in every state of a solve every halo entry (row 0, row N+1, column 0,
\* column M+1) of x and of t is zero, x and b having entered with zero halo.
C1_HaloZero ==
  \A q \in DOMAIN x : IsHalo(q) => x[q] = 0 /\ t[q] = 0

C1_Witness ==
  /\ pc = "region"
  /\ k >= 1
  /\ \E c \in Interior : x[At(c[1], c[2])] # 0 /\ t[At(c[1], c[2])] # 0

\* C2: k never decreases and grows by one at a time, after every completed
\* cycle k is the number of cycles run, at most maxit cycles are run, and
\* under fair scheduling of the workers the solve reaches its terminal state.
C2_CountsAndTerminates ==
  /\ [][k' = k \/ k' = k + 1]_vars
  /\ [](pc \in {"while", "done"} => k = sweeps)
  /\ [](sweeps <= maxit)
  /\ <>Terminated

C2_Witness == Terminated /\ k >= 2 /\ nthreads >= 2

\* C3: what jacobi_poisson hands back to its caller is the array x alone
\* (the function returns void; k, conv and s are locals).  The claim: two
\* solves of the same N, M, b that end in different terminal states never
\* hand back the same x.
C3_ResultTellsTerminalState ==
  Terminated =>
    \A xin \in XInputs(N, M) :
      LET other == SeqRun(xin)
      IN  other.conv # conv => other.x # x

\* C4: k never exceeds maxit; when the loop exits with conv false, k equals
\* maxit, exactly maxit sweeps have been run and x holds the last computed
\* iterate t.
C4_CapExact ==
  /\ k <= maxit
  /\ (Terminated /\ ~conv) =>
       /\ k = maxit
       /\ sweeps = maxit
       /\ \A c \in Interior : x[At(c[1], c[2])] = t[At(c[1], c[2])]

C4_Witness ==
  /\ Terminated
  /\ ~conv
  /\ maxit = 1
  /\ k = 1
  /\ \E c \in Interior : x[At(c[1], c[2])] # x0[At(c[1], c[2])]

\* C5: the final x, the final k, the conv flag and the printed residuals of
\* a solve are those of the single-worker run on the same N, M, b and x,
\* whatever the team size and the interleaving of the workers.
C5_SameAsSingleWorker ==
  Terminated =>
    LET seq == SeqRun(x0)
    IN  /\ x = seq.x
        /\ k = seq.k
        /\ conv = seq.conv
        /\ log = seq.log

C5_Witness == Terminated /\ nthreads >= 2 /\ conv /\ k >= 2 /\ N * M >= 2

\* C6: when jacobi_step returns, every interior t[i,j] is
\* (b[i,j] + x[i+1,j] + x[i-1,j] + x[i,j+1] + x[i,j-1]) / 4 of the x the
\* call was given; for N = M = 1 that is b[1,1] / 4.
C6_StencilOfInput ==
  StepReturned =>
    /\ \A i \in 1 .. N, j \in 1 .. M :
         t[i * (M + 2) + j] =
           (b[i * (M + 2) + j] + xk[(i + 1) * (M + 2) + j]
            + xk[(i - 1) * (M + 2) + j] + xk[i * (M + 2) + j + 1]
            + xk[i * (M + 2) + j - 1]) \div 4
    /\ (N = 1 /\ M = 1) => t[4] = b[4] \div 4

C6_Witness ==
  /\ StepReturned
  /\ nthreads >= 2
  /\ N = 2 /\ M = 2
  /\ k >= 1
  /\ t[At(1, 1)] # t[At(2, 2)]

\* C7 for N = M = 2, b = h*h*f on the interior, x = 0 on entry and the
\* program's cap.
Scenario7 ==
  /\ N = 2 /\ M = 2
  /\ b = BUniform(2, 2)
  /\ x0 = Calloc(2, 2)
  /\ maxit = MaxitDefault
FourEqual ==
  /\ x[At(1, 1)] = x[At(1, 2)]
  /\ x[At(1, 1)] = x[At(2, 1)]
  /\ x[At(1, 1)] = x[At(2, 2)]
ConvergedNearFixedPoint ==
  /\ conv
  /\ Sqrt(s) < tol
  /\ \A c \in Interior : Abs(x[At(c[1], c[2])] - h2f \div 2) < tol

\* C7 as claimed: in the scenario the four interior values of x are equal
\* in every reachable state, and the solve ends converged with residual
\* below tol and x within tol of h*h*f/2.
C7_Original ==
  Scenario7 =>
    /\ FourEqual
    /\ Terminated => ConvergedNearFixedPoint

\* C7 as amended: in the scenario the four interior values of x are equal
\* in every state in which the copy loop is not part-way through, the solve
\* terminates, and it ends converged with residual below tol and x within
\* tol of h*h*f/2.
C7_SymmetricConverged ==
  /\ [](Scenario7 => (~CopyPartWay => FourEqual))
  /\ [](Scenario7 => (Terminated => ConvergedNearFixedPoint))
  /\ (Scenario7 ~> Terminated)

C7_Witness == Scenario7 /\ Terminated /\ conv /\ k = 8 /\ x[At(1, 1)] > 0

\* C8: when the solve ends with conv true, one more stencil sweep over the
\* returned x changes every interior value by less than tol.
C8_StableAtConvergence ==
  (Terminated /\ conv) =>
    \A i \in 1 .. N, j \in 1 .. M :
      Abs((b[i * (M + 2) + j] + x[(i + 1) * (M + 2) + j]
           + x[(i - 1) * (M + 2) + j] + x[i * (M + 2) + j + 1]
           + x[i * (M + 2) + j - 1]) \div 4 - x[i * (M + 2) + j]) < tol

C8_Witness == Terminated /\ conv /\ k >= 2 /\ N * M >= 2 /\ b = BPoint(N, M)

\* C9: the dimensions main hands to the solver are positive: an argument for
\* N that is no positive integer is replaced by 50, one for M by 1, and
\* without arguments N = M = 50.
Numeral(str) == str # << >> /\ \A n \in 1 .. Len(str) : str[n] \in Digits
PositiveInteger(str) == Numeral(str) /\ \E n \in 1 .. Len(str) : str[n] # "0"
ArgsExtracted == mpc \notin {"solver", "args"}
C9_PositiveDimensions ==
  ArgsExtracted =>
    /\ N >= 1
    /\ M >= 1
    /\ (argc > 1 /\ ~PositiveInteger(argv[1])) => N = 50
    /\ (argc > 2 /\ ~PositiveInteger(argv[2])) => M = 1
    /\ argc = 1 => (N = 50 /\ M = 50)

\* C10: after a completed solve the process ends with exit status 1 exactly
\* when the matrix dump cannot be opened, and with exit status 0 otherwise;
\* with exit status 1 no row of the matrix has been written.
C10_ExitStatus ==
  mpc = "exited" =>
    /\ status = "exit 1" <=> "matrix_poisson_openmp.txt" \notin fs
    /\ status # "exit 1" => status = "exit 0"
    /\ status = "exit 1" => rows = 0

\* C11 as stated: the cycle that detects convergence does not write x, so on
\* a return with conv set x is still the input of the last sweep.
C11_Original ==
  (Terminated /\ conv) => \A c \in Interior : x[At(c[1], c[2])] = xk[At(c[1], c[2])]

\* C11 amended: the copy of t into x runs in every cycle, the converging one
\* included: whenever the loop condition is evaluated after a cycle, and on
\* return, every interior point of x holds the output of the last sweep.
C11_CopyEveryCycle ==
  (pc \in {"while", "done"} /\ sweeps >= 1) =>
    \A c \in Interior :
      /\ x[At(c[1], c[2])] = t[At(c[1], c[2])]
      /\ x[At(c[1], c[2])] = Stencil(xk, b, c[1], c[2])

C11_Witness ==
  /\ Terminated /\ conv /\ k >= 2 /\ N >= 2
  /\ \E c \in Interior : x[At(c[1], c[2])] # xk[At(c[1], c[2])]

\* C12: the phases of a cycle are strictly ordered, whatever the interleaving
\* of the workers: while the reduction can read t every sweep write is done
\* (t is the stencil of the sweep's input at every interior point); once
\* the single block has computed conv every worker's partial sum is in s;
\* and when the next sweep can start every copy iteration has been run and
\* x holds t at every interior point.
RECURSIVE SumPriv(_)
SumPriv(ws) ==
  IF ws = {} THEN 0
  ELSE LET w == CHOOSE v \in ws : TRUE IN spriv[w] + SumPriv(ws \ {w})

Ran == {o[1] : o \in owner}

C12_PhasesOrdered ==
  /\ pc = "region" =>
       \A c \in Interior : t[At(c[1], c[2])] = Stencil(xk, b, c[1], c[2])
  /\ (pc = "region" /\ single_by # 0) => s = SumPriv(Workers)
  /\ (pc = "while" /\ sweeps >= 1) =>
       /\ Ran = Interior
       /\ \A c \in Interior : x[At(c[1], c[2])] = t[At(c[1], c[2])]

C12_Witness ==
  /\ pc = "while" /\ sweeps >= 2 /\ nthreads >= 2
  /\ \A w \in Workers : spriv[w] > 0 /\ \E o \in owner : o[2] = w

\* C13: the single block is left without a wait (nowait) and runs next to
\* the copy loop, yet whenever the loop condition is evaluated after a cycle
\* the block of that cycle has run to its end: conv is the test of that
\* cycle's s, k counts that cycle, and that cycle's record is printed.
C13_FreshCondition ==
  (pc = "while" /\ sweeps >= 1) =>
    /\ single_by # 0
    /\ conv = (Sqrt(s) < tol)
    /\ k = sweeps
    /\ Len(log) = sweeps /\ log[sweeps] = <<sweeps - 1, Sqrt(s)>>

\* a cycle that sets conv in which the worker running the single block
\* ran no iteration of the copy loop: the other workers copied meanwhile
C13_Witness ==
  /\ pc = "while" /\ sweeps >= 2 /\ conv /\ nthreads >= 2
  /\ owner # {} /\ \A o \in owner : o[2] # single_by

\* C14: in every cycle exactly one worker runs the block that sets conv,
\* prints the record and increments k: only the worker that took the single
\* construct is ever inside the block, and a cycle adds exactly one record
\* and exactly one to k, the record once that worker is past line 75 and
\* the increment once it is past line 78.
Printed == single_by # 0 /\ wpc[single_by] \in {"inc", "copy", "join"}
Counted == single_by # 0 /\ wpc[single_by] \in {"copy", "join"}
C14_OneSingleWorker ==
  /\ \A w \in Workers : wpc[w] \in {"printf", "inc"} => w = single_by
  /\ pc = "region" =>
       /\ Len(log) = (sweeps - 1) + (IF Printed THEN 1 ELSE 0)
       /\ k = (sweeps - 1) + (IF Counted THEN 1 ELSE 0)
       /\ (\E w \in Workers : wpc[w] \in {"copy", "join"}) => single_by # 0
  /\ pc \in {"while", "done"} => (Len(log) = sweeps /\ k = sweeps)

\* a worker that did not get the block is in the copy loop while the worker
\* that got it is still inside the block
C14_Witness ==
  /\ pc = "region" /\ sweeps >= 2 /\ single_by # 0
  /\ wpc[single_by] = "printf"
  /\ \E w \in Workers : w # single_by /\ wpc[w] = "copy" /\ <<<<1, 1>>, w>> \in owner

\* C15: in each of the three work-shared loops (sweep, reduction, copy) every
\* interior point is run by exactly one worker: an iteration is handed out
\* once, what has been run and what is left make up the interior, and every
\* write of t or x in a step is the write of the iteration handed out in
\* that step; so no two workers write the same element and no worker reads
\* an element another worker writes in that loop. The single block changes
\* neither x nor t while the copy loop runs next to it.
Phase ==
  IF pc = "step" THEN "sweep"
  ELSE IF pc = "region" /\ \E w \in Workers : wpc[w] \in {"reduce", "barrier"}
       THEN "reduce"
       ELSE IF pc = "region" THEN "copy" ELSE "none"
Mine(w) == {o[1] : o \in {a \in owner : a[2] = w}}
\* elements written by the iterations of worker w: t at line 24, x at line 84
Writes(w) ==
  IF Phase = "sweep" THEN {<<"t", At(c[1], c[2])>> : c \in Mine(w)}
  ELSE IF Phase = "copy" THEN {<<"x", At(c[1], c[2])>> : c \in Mine(w)}
  ELSE {}
\* elements read by the iterations of worker w at lines 24, 68 and 84
Reads(w) ==
  IF Phase = "sweep"
  THEN UNION {{<<"b", At(c[1], c[2])>>, <<"x", At(c[1] + 1, c[2])>>,
               <<"x", At(c[1] - 1, c[2])>>, <<"x", At(c[1], c[2] + 1)>>,
               <<"x", At(c[1], c[2] - 1)>>} : c \in Mine(w)}
  ELSE IF Phase = "reduce"
  THEN UNION {{<<"x", At(c[1], c[2])>>, <<"t", At(c[1], c[2])>>} : c \in Mine(w)}
  ELSE IF Phase = "copy" THEN {<<"t", At(c[1], c[2])>> : c \in Mine(w)}
  ELSE {}

C15_Partition ==
  /\ \A o1, o2 \in owner : o1[1] = o2[1] => o1[2] = o2[2]
  /\ pc \in {"step", "region"} => (Ran \cup todo = Interior /\ Ran \cap todo = {})
  /\ (StepReturned \/ (pc = "region" /\ \A w \in Workers : wpc[w] = "barrier")
        \/ (pc = "region" /\ \A w \in Workers : wpc[w] = "join")) => Ran = Interior
  /\ \A w1, w2 \in Workers :
       w1 # w2 => /\ Writes(w1) \cap Writes(w2) = {}
                  /\ Writes(w1) \cap Reads(w2) = {}
C15_WritesOwned ==
  /\ \A q \in DOMAIN t :
       t'[q] # t[q] => (pc = "step" /\ \E o \in owner' \ owner : At(o[1][1], o[1][2]) = q)
  /\ \A q \in DOMAIN x :
       x'[q] # x[q] => (Phase = "copy" /\ \E o \in owner' \ owner : At(o[1][1], o[1][2]) = q)
  /\ (single_by' # single_by \/ conv' # conv \/ k' # k \/ log' # log) =>
       (x' = x /\ t' = t)
C15_DisjointWork == []C15_Partition /\ [][C15_WritesOwned]_vars

\* the copy loop is done, shared between two workers, after a cycle in
\* which x and t differed
C15_Witness ==
  /\ Phase = "copy" /\ todo = {} /\ sweeps >= 2 /\ x # xk
  /\ \A w \in Workers : Mine(w) # {}
  /\ nthreads >= 2

\* C16: the s that the convergence test reads is the sum, over all interior
\* points and each point once, of the squared difference between the
\* sweep's input and its output: s is 0 when the reduction starts, and
\* nothing of an earlier cycle is left in it.
RECURSIVE SumSq(_)
SumSq(left) ==
  IF left = {} THEN 0
  ELSE LET c == CHOOSE d \in left : TRUE
           q == c[1] * ld + c[2]
       IN (xk[q] - t[q]) * (xk[q] - t[q]) + SumSq(left \ {c})

C16_SumOfThisCycle ==
  /\ (pc = "region" /\ \A w \in Workers : wpc[w] = "reduce") => s = 0
  /\ (pc = "region" /\ single_by # 0) => s = SumSq(Interior)
  /\ (pc \in {"while", "done"} /\ sweeps >= 1) =>
       (s = SumSq(Interior) /\ conv = (Sqrt(SumSq(Interior)) < tol))

\* second cycle or later, the earlier residual was not 0, both workers
\* contributed to the sum and the test has been made
C16_Witness ==
  /\ pc = "region" /\ single_by # 0 /\ sweeps >= 2 /\ nthreads >= 2
  /\ log[1][2] > 0 /\ s > 0
  /\ \A w \in Workers : spriv[w] > 0

\* C17: no step of the solve changes b; the steps of jacobi_step leave x as
\* it is and change t at interior points only; x changes only in the copy
\* loop, only at interior points, and only to the value of t there.
C17_Frame ==
  /\ b' = b
  /\ pc = "step" =>
       (x' = x /\ \A q \in DOMAIN t : t'[q] # t[q] => ~IsHalo(q))
  /\ pc # "step" => t' = t
  /\ \A q \in DOMAIN x :
       x'[q] # x[q] =>
         (~IsHalo(q) /\ x'[q] = t[q] /\ \E w \in Workers : wpc[w] = "copy")
C17_WritesOnlyItsOutput == [][C17_Frame]_vars

\* jacobi_step has returned in a second or later cycle: t is written, and x
\* is no longer the x the solve was called with
C17_Witness ==
  /\ StepReturned /\ sweeps >= 2 /\ N * M >= 2
  /\ x # x0 /\ t # x
  /\ \E q \in DOMAIN b : b[q] # 0

\* C18: the records of a solve carry the indices 0, 1, 2, ... in the order
\* they are printed, each once, and as many as the final count k; records
\* are only ever added at the end; and the residual of a cycle's record is
\* the norm of the difference between the input of that cycle's sweep and
\* its output, also when the copy loop has changed x before the record is
\* printed.
C18_Records ==
  /\ \A n \in 1 .. Len(log) : log[n][1] = n - 1
  /\ Terminated => Len(log) = k
  /\ ((pc = "region" /\ Printed) \/ (pc \in {"while", "done"} /\ sweeps >= 1)) =>
       /\ Len(log) = sweeps
       /\ log[sweeps][2] = Sqrt(SumSq(Interior))
C18_AppendOnly ==
  log' # log => (Len(log') = Len(log) + 1 /\ SubSeq(log', 1, Len(log)) = log)
C18_RecordPerCycle == []C18_Records /\ [][C18_AppendOnly]_vars

\* the record of a second or later cycle has just been printed, after
\* another worker's copy iterations changed x
C18_Witness ==
  /\ pc = "region" /\ single_by # 0 /\ wpc[single_by] = "inc"
  /\ sweeps >= 2 /\ x # xk /\ log[sweeps][2] > 0

\* C19: with an empty interior (N = 0 or M = 0) the solve runs one cycle and
\* no more: no iteration of any of the three loops is run, no step changes
\* an element of x, b or t, and on return the one record is that of cycle 0
\* with residual 0, conv is set and k is 1.
EmptyInterior == N = 0 \/ M = 0
C19_State ==
  EmptyInterior =>
    /\ owner = {} /\ todo = {}
    /\ x = x0 /\ t = Calloc(N, M)
    /\ sweeps <= 1 /\ k <= 1
    /\ (pc = "region" /\ single_by # 0) => (conv /\ s = 0)
    /\ (pc = "while" /\ sweeps = 1) => (conv /\ k = 1)
    /\ Terminated =>
         (sweeps = 1 /\ k = 1 /\ conv /\ s = 0 /\ log = <<<<0, 0>>>>)
C19_Step == EmptyInterior => (x' = x /\ b' = b /\ t' = t)
C19_EmptyInterior == []C19_State /\ [][C19_Step]_vars

C19_Witness ==
  /\ EmptyInterior /\ N + M >= 2 /\ nthreads >= 2
  /\ Terminated /\ Len(log) = 1

====
